---- MODULE Spec2Model ----
(***************************************************************************)
(* Model of the download pipeline of the exercism command line client      *)
(* (package cmd): parameter validation, the solution lookup request, the   *)
(* classification of its response, the derivation of the destination       *)
(* directory and the legacy file-path sanitizer.                            *)
(*                                                                         *)
(* Text that only matters by being empty or not (token, uuid, ...) is a    *)
(* TLA+ string.  Text that the code takes apart (paths, file names, the    *)
(* identifiers that become path elements) is a sequence of atoms: an atom  *)
(* is one character ("/", "\\", "-", a digit) or a word that contains no   *)
(* separator, digit, dash or regular-expression metacharacter.  The empty  *)
(* text is << >>.                                                          *)
(***************************************************************************)
EXTENDS Integers, Sequences, FiniteSets, TLC

VARIABLES
    pc,         \* position of the run
    goos,       \* host operating system of the build: "linux" or "windows"
    entry,      \* how the run was started: "flags", "exercise", "direct"
    params,     \* the *downloadParams of the run: << >> is nil, <<d>> points to d
    requests,   \* the network requests issued so far, in order
    response,   \* what client.Do returned for the lookup request
    payload,    \* d.downloadPayload: << >> is the nil pointer, <<pl>> points to pl
    location,   \* the ws.Exercise computed by d.exercise() (<< >>: not yet)
    result,     \* "none", "ok", "error" or "panic"
    err,        \* the error returned (Nil when none)
    file,       \* sanitizer run: the filename given
    slugArg,    \* sanitizer run: the slug given
    replaced,   \* sanitizer run: the text after strings.Replace (line 95)
    native,     \* sanitizer run: the value returned (after filepath.FromSlash)
    again,      \* sanitizer run: the value returned for the value returned
    disk,       \* the file system below the workspace
    w,          \* the downloadWriter: calls made, loop index, open handles, results
    flat        \* the run of the functions that take the payload as an argument

vars == <<pc, goos, entry, params, requests, response, payload, location, result, err,
          file, slugArg, replaced, native, again, disk, w, flat>>

pipelineVars == <<entry, params, requests, response, payload, location, result, err>>
sanitizerVars == <<file, slugArg, replaced, native, again>>
writerVars == <<disk, w, flat>>

(***************************************************************************)
(* Bounds.                                                                 *)
(***************************************************************************)
MaxLen == 6

(***************************************************************************)
(* Program constants.                                                      *)
(***************************************************************************)
StatusOK == 200
StatusUnauthorized == 401

(***************************************************************************)
(* Errors.  A Go error is modelled by its kind, its message and, for the   *)
(* track_ambiguous message, the list joined into it.                       *)
(***************************************************************************)
Nil == [kind |-> "nil", msg |-> "", ids |-> << >>]

NewError(kind, msg) == [kind |-> kind, msg |-> msg, ids |-> << >>]

(***************************************************************************)
(* downloadParams (cmd.go 332-345) and the values its fields are drawn     *)
(* from.  The slug and the uuid share the value "x1" so that d.uuid ==     *)
(* d.slug is also met with both set.                                       *)
(***************************************************************************)
Slugs == {"", "hello", "x1"}
UUIDs == {"", "x1"}
Tokens == {"", "tok"}
APIBaseURLs == {"", "https://api"}
Workspaces == {<< >>, <<"/", "ws">>, <<"ws">>}
Tracks == {"", "go"}
Teams == {"", "acme"}

downloadParams ==
    [slug : Slugs, uuid : UUIDs, token : Tokens, apibaseurl : APIBaseURLs,
     workspace : Workspaces, track : Tracks, team : Teams,
     fromExercise : BOOLEAN, fromFlags : BOOLEAN]

\* The user configuration read by setFromConfig.
UserConfigs == [token : Tokens, apibaseurl : APIBaseURLs, workspace : Workspaces]

\* The values of the --uuid, --exercise, --track and --team flags.
FlagSets == [uuid : UUIDs, exercise : Slugs, track : Tracks, team : Teams]

\* The identity of a local exercise (ws.Exercise) as far as the params read it.
LocalExercises == [Slug : Slugs, Track : Tracks]

(***************************************************************************)
(* Validation rules (cmd.go 383-438).                                      *)
(***************************************************************************)
\* Fault: only d.uuid == d.slug is tested, so a slug and a different uuid pass.
needsSlugXorUUIDEqualOnly(d) ==
    IF d.uuid = d.slug
    THEN IF d.fromFlags
         THEN NewError("validation", "need an --exercise name or a solution --uuid")
         ELSE NewError("validation", "need a 'slug' or a 'uuid'")
    ELSE Nil

needsSlugXorUUID(d) ==
    IF (d.slug # "" /\ d.uuid # "") \/ d.uuid = d.slug
    THEN IF d.fromFlags
         THEN NewError("validation", "need an --exercise name or a solution --uuid")
         ELSE NewError("validation", "need a 'slug' or a 'uuid'")
    ELSE Nil

\* Fault: the apibaseurl and workspace messages are exchanged.
needsUserConfigValuesSwapped(d) ==
    IF d.token = "" THEN NewError("config", "missing required user config: 'token'")
    ELSE IF d.apibaseurl = ""
         THEN NewError("config", "missing required user config: 'workspace'")
    ELSE IF d.workspace = << >>
         THEN NewError("config", "missing required user config: 'apibaseurl'")
    ELSE Nil

needsUserConfigValues(d) ==
    IF d.token = "" THEN NewError("config", "missing required user config: 'token'")
    ELSE IF d.apibaseurl = ""
         THEN NewError("config", "missing required user config: 'apibaseurl'")
    ELSE IF d.workspace = << >>
         THEN NewError("config", "missing required user config: 'workspace'")
    ELSE Nil

\* Fault: the track is not looked at.
needsSlugWhenGivenTrackOrTeamTeamOnly(d) ==
    IF d.fromFlags /\ d.team # "" /\ d.slug = ""
    THEN NewError("validation", "--team or --track requires --exercise (not --uuid)")
    ELSE Nil

needsSlugWhenGivenTrackOrTeam(d) ==
    IF d.fromFlags
    THEN IF (d.team # "" \/ d.track # "") /\ d.slug = ""
         THEN NewError("validation", "--team or --track requires --exercise (not --uuid)")
         ELSE Nil
    ELSE Nil

\* Fault: the user config is checked before the slug-xor-uuid rule.
validateConfigFirst(d) ==
    IF needsUserConfigValues(d) # Nil THEN needsUserConfigValues(d)
    ELSE IF needsSlugXorUUID(d) # Nil THEN needsSlugXorUUID(d)
    ELSE IF needsSlugWhenGivenTrackOrTeam(d) # Nil THEN needsSlugWhenGivenTrackOrTeam(d)
    ELSE Nil

\* downloadParams.validate: the first failing rule decides.
validate(d) ==
    IF needsSlugXorUUID(d) # Nil THEN needsSlugXorUUID(d)
    ELSE IF needsUserConfigValues(d) # Nil THEN needsUserConfigValues(d)
    ELSE IF needsSlugWhenGivenTrackOrTeam(d) # Nil THEN needsSlugWhenGivenTrackOrTeam(d)
    ELSE Nil

\* setFromConfig (cmd.go 377-381).
setFromConfig(d, usrCfg) ==
    [d EXCEPT !.token = usrCfg.token,
              !.apibaseurl = usrCfg.apibaseurl,
              !.workspace = usrCfg.workspace]

\* The zero value of the downloadParams struct.
zeroParams ==
    [slug |-> "", uuid |-> "", token |-> "", apibaseurl |-> "", workspace |-> << >>,
     track |-> "", team |-> "", fromExercise |-> FALSE, fromFlags |-> FALSE]

\* The params built by newDownloadParamsFromExercise before validation (348-349).
paramsFromExercise(usrCfg, exercise) ==
    setFromConfig([zeroParams EXCEPT !.slug = exercise.Slug,
                                     !.track = exercise.Track,
                                     !.fromExercise = TRUE], usrCfg)

\* The params built by newDownloadParamsFromFlags before validation (354-372).
paramsFromFlags(usrCfg, flags) ==
    [setFromConfig([zeroParams EXCEPT !.fromFlags = TRUE], usrCfg)
        EXCEPT !.uuid = flags.uuid, !.slug = flags.exercise,
               !.track = flags.track, !.team = flags.team]

(***************************************************************************)
(* The lookup request (cmd.go 170-190).                                    *)
(***************************************************************************)
\* fmt.Sprintf("%s/solutions/%s", apibaseurl, id): the pieces, in order.
requestURL(p) ==
    LET id == IF p.uuid # "" THEN p.uuid ELSE "latest"
    IN  <<p.apibaseurl, "/solutions/", id>>

\* url.Values: a map from key to the values added under it.
NoValues == [k \in {} |-> << >>]

\* query.Add(key, value)
Add(query, key, value) ==
    [k \in DOMAIN query \cup {key} |->
        IF k = key
        THEN (IF k \in DOMAIN query THEN query[k] ELSE << >>) \o <<value>>
        ELSE query[k]]

\* The keys the client adds, in the byte order url.Values.Encode sorts them into.
SortedKeys == <<"exercise_id", "team_id", "track_id">>

RECURSIVE EncodeFrom(_, _)
EncodeFrom(query, i) ==
    IF i > Len(SortedKeys) THEN << >>
    ELSE (IF SortedKeys[i] \in DOMAIN query
          THEN [j \in 1..Len(query[SortedKeys[i]]) |->
                    <<SortedKeys[i], query[SortedKeys[i]][j]>>]
          ELSE << >>) \o EncodeFrom(query, i + 1)

\* url.Values.Encode: the key=value pairs sorted by key.
Encode(query) == EncodeFrom(query, 1)

\* Fault: track_id is added even when the track is empty.
buildQueryAlwaysTrack(p) ==
    LET q0 == NoValues
        q1 == IF p.slug # "" THEN Add(q0, "exercise_id", p.slug) ELSE q0
        q2 == IF p.slug # "" THEN Add(q1, "track_id", p.track) ELSE q1
        q3 == IF p.slug # "" /\ p.team # "" THEN Add(q2, "team_id", p.team) ELSE q2
    IN  Encode(q3)

\* download.buildQuery: the RawQuery it leaves on the request URL.
buildQuery(p) ==
    LET q0 == NoValues
        q1 == IF p.slug # "" THEN Add(q0, "exercise_id", p.slug) ELSE q0
        q2 == IF p.slug # "" /\ p.track # "" THEN Add(q1, "track_id", p.track) ELSE q1
        q3 == IF p.slug # "" /\ p.team # "" THEN Add(q2, "team_id", p.team) ELSE q2
    IN  Encode(q3)

\* The request newDownload hands to client.Do (137-143).
lookupRequest(p) ==
    [kind |-> "lookup", method |-> "GET", url |-> requestURL(p), rawQuery |-> buildQuery(p)]

(***************************************************************************)
(* downloadPayload (cmd.go 441-473) and the responses the API may give.    *)
(***************************************************************************)
SolutionIDs == {"", "sol1"}
TeamSlugs == {<< >>, <<"acme">>, <<"..">>}
Handles == {<< >>, <<"bob">>}
TrackIDs == {<<"go">>}
ExerciseIDs == {<<"e">>}
ErrorTypes == {"", "track_ambiguous"}
ErrorMessages == {"", "boom"}
PossibleTrackIDs == {<< >>, <<"go", "rust">>}

Errors ==
    {e \in [Type : ErrorTypes, Message : ErrorMessages, PossibleTrackIDs : PossibleTrackIDs] :
        e.PossibleTrackIDs # << >> => e.Type = "track_ambiguous"}

Solutions ==
    [ID : SolutionIDs, URL : {"https://site/sol1"},
     Team : [Slug : TeamSlugs],
     User : [Handle : Handles, IsRequester : BOOLEAN],
     Exercise : [ID : ExerciseIDs, AutoApprove : BOOLEAN, Track : [ID : TrackIDs]],
     FileDownloadBaseURL : {"https://files/"},
     Files : {<< >>}]
    \cup [ID : SolutionIDs, URL : {"https://site/sol1"},
          Team : [Slug : {<< >>}],
          User : [Handle : {<<"bob">>}, IsRequester : {TRUE}],
          Exercise : [ID : ExerciseIDs, AutoApprove : {TRUE}, Track : [ID : TrackIDs]],
          FileDownloadBaseURL : {"https://files/"},
          Files : {<<(<<"f", "/", "b">>), (<<"/", "e", "-", "2", "/">>)>>}]

downloadPayload == [Solution : Solutions, Error : Errors]

\* What client.Do and the JSON decoder can give newDownload: a transport failure,
\* a body that does not decode, the JSON value null (which decodes into a nil
\* *downloadPayload without error), or a JSON object.
Statuses == {StatusOK, StatusUnauthorized, 404}

NoResponse == [transport |-> "none", status |-> 0, body |-> "none", decoded |-> << >>]

Responses ==
    {[transport |-> "failed", status |-> 0, body |-> "none", decoded |-> << >>]}
    \cup [transport : {"ok"}, status : Statuses, body : {"garbage", "null"}, decoded : {<< >>}]
    \cup [transport : {"ok"}, status : Statuses, body : {"object"},
          decoded : {<<pl>> : pl \in downloadPayload}]

\* download.validate (267-275) on a decoded payload.
validatePayload(pl) ==
    IF pl.Solution.ID = "" THEN NewError("api", "download missing an ID")
    ELSE IF pl.Error.Message # "" THEN NewError("api", pl.Error.Message)
    ELSE Nil

\* newDownload from the response on (143-167): the outcome and the error returned.
\* A nil payload is dereferenced at d.Error.Type (160) and in d.validate (268):
\* the run panics.
classify(res) ==
    IF res.transport # "ok" THEN [result |-> "error", err |-> NewError("transport", "")]
    ELSE IF res.body = "garbage"
         THEN [result |-> "error", err |-> NewError("api", "unable to parse API response")]
    ELSE IF res.status = StatusUnauthorized
         THEN [result |-> "error", err |-> NewError("api", "unauthorized request")]
    ELSE IF res.status # StatusOK
         THEN IF res.decoded = << >> THEN [result |-> "panic", err |-> Nil]
              ELSE IF res.decoded[1].Error.Type = "track_ambiguous"
                   THEN [result |-> "error",
                         err |-> [kind |-> "track_ambiguous",
                                  msg |-> res.decoded[1].Error.Message,
                                  ids |-> res.decoded[1].Error.PossibleTrackIDs]]
                   ELSE [result |-> "error",
                         err |-> NewError("api", res.decoded[1].Error.Message)]
    ELSE IF res.decoded = << >> THEN [result |-> "panic", err |-> Nil]
    ELSE IF validatePayload(res.decoded[1]) = Nil
         THEN [result |-> "ok", err |-> Nil]
         ELSE [result |-> "error", err |-> validatePayload(res.decoded[1])]

(***************************************************************************)
(* Paths.  path/filepath as the code calls it: Join drops empty elements,  *)
(* joins the rest with the host separator and cleans the result.           *)
(***************************************************************************)
GOOS == {"linux", "windows"}

Separator(os) == IF os = "windows" THEN "\\" ELSE "/"

IsPathSeparator(os, a) == a = "/" \/ (os = "windows" /\ a = "\\")

\* The elements of a path: the maximal runs of atoms between separators.
RECURSIVE SplitFrom(_, _, _, _)
SplitFrom(os, s, i, cur) ==
    IF i > Len(s) THEN (IF cur = << >> THEN << >> ELSE <<cur>>)
    ELSE IF IsPathSeparator(os, s[i])
         THEN (IF cur = << >> THEN << >> ELSE <<cur>>) \o SplitFrom(os, s, i + 1, << >>)
         ELSE SplitFrom(os, s, i + 1, Append(cur, s[i]))

Split(os, s) == SplitFrom(os, s, 1, << >>)

IsRooted(os, s) == Len(s) > 0 /\ IsPathSeparator(os, s[1])

\* filepath.Clean on the elements: "." is dropped, ".." removes the element before
\* it, is dropped at the root, and is kept at the start of a relative path.
RECURSIVE CleanElems(_, _, _)
CleanElems(elems, out, rooted) ==
    IF elems = << >> THEN out
    ELSE LET e == Head(elems)
         IN  IF e = <<".">> THEN CleanElems(Tail(elems), out, rooted)
             ELSE IF e = <<"..">>
                  THEN IF out # << >> /\ out[Len(out)] # <<"..">>
                       THEN CleanElems(Tail(elems), SubSeq(out, 1, Len(out) - 1), rooted)
                       ELSE IF rooted
                            THEN CleanElems(Tail(elems), out, rooted)
                            ELSE CleanElems(Tail(elems), Append(out, e), rooted)
                  ELSE CleanElems(Tail(elems), Append(out, e), rooted)

RECURSIVE JoinElems(_, _)
JoinElems(os, elems) ==
    IF elems = << >> THEN << >>
    ELSE IF Len(elems) = 1 THEN Head(elems)
    ELSE Head(elems) \o <<Separator(os)>> \o JoinElems(os, Tail(elems))

\* filepath.Clean
Clean(os, s) ==
    LET rooted == IsRooted(os, s)
        body == JoinElems(os, CleanElems(Split(os, s), << >>, rooted))
    IN  IF rooted THEN <<Separator(os)>> \o body
        ELSE IF body = << >> THEN <<".">> ELSE body

\* filepath.Join
Join(os, elems) ==
    LET given == SelectSeq(elems, LAMBDA e : e # << >>)
    IN  IF given = << >> THEN << >>
        ELSE Clean(os, JoinElems(os, given))

\* filepath.FromSlash
FromSlash(os, s) ==
    IF Separator(os) = "/" THEN s
    ELSE [i \in 1..Len(s) |-> IF s[i] = "/" THEN Separator(os) ELSE s[i]]

(***************************************************************************)
(* The destination of a download (cmd.go 236-264).                         *)
(***************************************************************************)
isTeamSolution(pl) == pl.Solution.Team.Slug # << >>

\* Fault: the negation is lost.
solutionBelongsToOtherUserInverted(pl) == pl.Solution.User.IsRequester

solutionBelongsToOtherUser(pl) == ~pl.Solution.User.IsRequester

solutionRoot(os, p, pl) ==
    LET root0 == p.workspace
        root1 == IF isTeamSolution(pl)
                 THEN Join(os, <<root0, <<"teams">>, pl.Solution.Team.Slug>>)
                 ELSE root0
    IN  IF solutionBelongsToOtherUser(pl)
        THEN Join(os, <<root1, <<"users">>, pl.Solution.User.Handle>>)
        ELSE root1

exercise(os, p, pl) ==
    [Root |-> solutionRoot(os, p, pl),
     Track |-> pl.Solution.Exercise.Track.ID,
     Slug |-> pl.Solution.Exercise.ID]

(***************************************************************************)
(* sanitizeLegacyNumericSuffixFilepath (cmd.go 87-97).  The pattern is     *)
(*     \A.*[/\\]<slug>-\d*/                                                *)
(* A match starts at the start of the file name; the greedy .* makes it    *)
(* end at the last place where a separator, the slug, a dash, a run of     *)
(* digits and a slash follow each other.                                   *)
(***************************************************************************)
Digits == {"2"}

\* The first index from j on whose atom is no digit (Len(f) + 1 when there is none).
RECURSIVE DigitsEnd(_, _)
DigitsEnd(f, j) ==
    IF j <= Len(f) /\ f[j] \in Digits THEN DigitsEnd(f, j + 1) ELSE j

\* Fault: \d+ in place of \d*.
SuffixEndAtOneOrMoreDigits(f, slug, i) ==
    LET dash == i + Len(slug) + 1
        slash == DigitsEnd(f, dash + 1)
    IN  IF /\ i >= 1
           /\ dash <= Len(f)
           /\ f[i] \in {"/", "\\"}
           /\ SubSeq(f, i + 1, i + Len(slug)) = slug
           /\ f[dash] = "-"
           /\ slash > dash + 1
           /\ slash <= Len(f)
           /\ f[slash] = "/"
        THEN slash
        ELSE 0

\* Where [/\\]<slug>-\d*/ ends when it starts at index i of f (0: it does not match).
\* \d* takes the whole run of digits: giving one back leaves a digit where the
\* slash must be.
SuffixEndAt(f, slug, i) ==
    LET dash == i + Len(slug) + 1
        slash == DigitsEnd(f, dash + 1)
    IN  IF /\ i >= 1
           /\ dash <= Len(f)
           /\ f[i] \in {"/", "\\"}
           /\ SubSeq(f, i + 1, i + Len(slug)) = slug
           /\ f[dash] = "-"
           /\ slash <= Len(f)
           /\ f[slash] = "/"
        THEN slash
        ELSE 0

\* The end of the match of the whole pattern in f (0: no match).
MatchEnd(f, slug) ==
    LET starts == {i \in 1..Len(f) : SuffixEndAt(f, slug, i) # 0}
    IN  IF starts = {} THEN 0
        ELSE SuffixEndAt(f, slug, CHOOSE i \in starts : \A k \in starts : k <= i)

\* Lines 88-92: the match, when there is one, is replaced by the empty text.
stripNumericSuffix(f, slug) ==
    IF MatchEnd(f, slug) # 0
    THEN SubSeq(f, MatchEnd(f, slug) + 1, Len(f))
    ELSE f

\* strings.Replace(s, old, new, n) for one-atom old and new: the first n
\* occurrences are replaced, all of them when n < 0.
RECURSIVE Replace(_, _, _, _)
Replace(s, old, new, n) ==
    IF s = << >> \/ n = 0 THEN s
    ELSE IF Head(s) = old
         THEN <<new>> \o Replace(Tail(s), old, new, IF n < 0 THEN n ELSE n - 1)
         ELSE <<Head(s)>> \o Replace(Tail(s), old, new, n)

\* Fault: only the first backslash is replaced.
rewriteFirstBackslash(f) == Replace(f, "\\", "/", 1)

\* Line 95.
rewriteBackslashes(f) == Replace(f, "\\", "/", -1)

\* The file name as line 95 leaves it, before filepath.FromSlash.
sanitizedSlashPath(f, slug) == rewriteBackslashes(stripNumericSuffix(f, slug))

sanitizeLegacyNumericSuffixFilepath(os, f, slug) ==
    FromSlash(os, sanitizedSlashPath(f, slug))

(***************************************************************************)
(* The disk.  dirs holds the directories made, files maps the path of each *)
(* file to what was written into it, meta maps a directory to the metadata *)
(* record written into it.  Paths are cleaned texts.  The root, "." and    *)
(* the paths made of ".." alone are directories that always exist.         *)
(***************************************************************************)
EmptyDisk == [dirs |-> {}, files |-> [p \in {} |-> << >>], meta |-> [p \in {} |-> << >>]]

\* The path made of the first k elements.
PathOf(os, rooted, elems, k) ==
    (IF rooted THEN <<Separator(os)>> ELSE << >>) \o JoinElems(os, SubSeq(elems, 1, k))

\* The path itself and the directories above it, as far as they have a name.
Prefixes(os, path) ==
    LET elems == Split(os, path)
    IN  {PathOf(os, IsRooted(os, path), elems, k) : k \in 1..Len(elems)}

AlwaysThere(os, path) ==
    LET elems == Split(os, path)
    IN  \A k \in 1..Len(elems) : elems[k] = <<"..">> \/ elems[k] = <<".">>

IsDir(os, dsk, path) == path \in dsk.dirs \/ AlwaysThere(os, path)

IsFile(dsk, path) == path \in DOMAIN dsk.files

\* The index of the last separator of the path (0: none).
RECURSIVE LastSeparator(_, _, _)
LastSeparator(os, path, i) ==
    IF i = 0 THEN 0
    ELSE IF IsPathSeparator(os, path[i]) THEN i
    ELSE LastSeparator(os, path, i - 1)

\* filepath.Dir
Dir(os, path) == Clean(os, SubSeq(path, 1, LastSeparator(os, path, Len(path))))

\* os.MkdirAll: fails when the path or a directory above it is a file, and
\* otherwise makes every directory that is missing.
MkdirAll(os, dsk, path) ==
    LET above == Prefixes(os, path)
    IN  IF \E p \in above : IsFile(dsk, p)
        THEN [ok |-> FALSE, disk |-> dsk]
        ELSE [ok |-> TRUE,
              disk |-> [dsk EXCEPT !.dirs = @ \cup {p \in above : ~AlwaysThere(os, p)}]]

\* os.Create followed by the copy of the body: the path must not be a directory
\* and must lie in a directory; the file is created or truncated.
Create(os, dsk, path, content) ==
    IF IsDir(os, dsk, path) \/ ~IsDir(os, dsk, Dir(os, path))
    THEN [ok |-> FALSE, disk |-> dsk]
    ELSE [ok |-> TRUE,
          disk |-> [dsk EXCEPT !.files =
                       [p \in DOMAIN @ \cup {path} |-> IF p = path THEN content ELSE @[p]]]]

(***************************************************************************)
(* The workspace package: the directory of an exercise and the writing of  *)
(* its metadata.                                                           *)
(***************************************************************************)
\* ws.Exercise.MetadataDir: {root}/{track}/{slug}
MetadataDir(os, ex) == Join(os, <<ex.Root, ex.Track, ex.Slug>>)

\* ws.ExerciseMetadata.Write: the directory is made when missing and the record
\* is stored in it.
Write(os, dsk, md, dir) ==
    LET made == MkdirAll(os, dsk, dir)
    IN  IF ~made.ok THEN made
        ELSE [ok |-> TRUE,
              disk |-> [made.disk EXCEPT !.meta =
                           [p \in DOMAIN @ \cup {dir} |-> IF p = dir THEN md ELSE @[p]]]]

\* Reading the record back from the directory (<< >>: there is none).
Read(dsk, dir) == IF dir \in DOMAIN dsk.meta THEN <<dsk.meta[dir]>> ELSE << >>

(***************************************************************************)
(* downloadWriter (cmd.go 277-329) and download.requestFile (194-221).     *)
(***************************************************************************)
\* Fault: Track and Exercise are exchanged.
metadataSwapped(pl) ==
    [AutoApprove |-> pl.Solution.Exercise.AutoApprove,
     Track |-> pl.Solution.Exercise.ID,
     Team |-> pl.Solution.Team.Slug,
     Exercise |-> pl.Solution.Exercise.Track.ID,
     ID |-> pl.Solution.ID,
     URL |-> pl.Solution.URL,
     Handle |-> pl.Solution.User.Handle,
     IsRequester |-> pl.Solution.User.IsRequester]

\* download.metadata
metadata(pl) ==
    [AutoApprove |-> pl.Solution.Exercise.AutoApprove,
     Track |-> pl.Solution.Exercise.Track.ID,
     Team |-> pl.Solution.Team.Slug,
     Exercise |-> pl.Solution.Exercise.ID,
     ID |-> pl.Solution.ID,
     URL |-> pl.Solution.URL,
     Handle |-> pl.Solution.User.Handle,
     IsRequester |-> pl.Solution.User.IsRequester]

\* downloadWriter.destination
destination(os, p, pl) == MetadataDir(os, exercise(os, p, pl))

\* The request requestFile hands to client.Do for a file name.
fileRequest(pl, filename) ==
    [kind |-> "file", method |-> "GET",
     url |-> <<pl.Solution.FileDownloadBaseURL, filename>>, rawQuery |-> << >>]

\* What can happen to the request for one file: the URL cannot be built (195-205),
\* client.Do fails, the status is not 200, the status is 200 with Content-Length
\* "0", the status is 200 with a body, the same with a body that breaks off
\* while it is copied.
FileOutcomes == {"badurl", "transport", "notfound", "empty", "content", "truncated"}

\* The path writeSolutionFiles writes a file name to (308-309).
fileWritePath(os, p, pl, filename) ==
    Join(os, <<destination(os, p, pl),
               sanitizeLegacyNumericSuffixFilepath(os, filename, exercise(os, p, pl).Slug)>>)

(***************************************************************************)
(* The functions that take the params and the payload as arguments         *)
(* (part_000 54-246): getDownloadPayload, writeMetadataFromPayload and     *)
(* writeSolutionFilesFromPayload.                                          *)
(***************************************************************************)
\* params.urlParam as the caller of getDownloadPayload sets it: the uuid, or
\* "latest" when there is none.
urlParam(d) == IF d.uuid # "" THEN d.uuid ELSE "latest"

\* The request getDownloadPayload hands to client.Do (66-89).
getDownloadPayloadRequest(d) ==
    LET q0 == NoValues
        q1 == IF d.uuid = "" THEN Add(q0, "exercise_id", d.slug) ELSE q0
        q2 == IF d.uuid = "" /\ d.track # "" THEN Add(q1, "track_id", d.track) ELSE q1
        q3 == IF d.uuid = "" /\ d.team # "" THEN Add(q2, "team_id", d.team) ELSE q2
    IN  [kind |-> "lookup", method |-> "GET",
         url |-> <<d.apibaseurl, "/solutions/", urlParam(d)>>,
         rawQuery |-> Encode(q3)]

\* getDownloadPayload from the return of client.Do on (91-118).  A 200 response
\* is returned as it was decoded; a nil payload is dereferenced at
\* payload.Error.Type (111).
getDownloadPayload(res) ==
    IF res.transport # "ok"
    THEN [result |-> "error", err |-> NewError("transport", ""), payload |-> << >>]
    ELSE IF res.body = "garbage"
    THEN [result |-> "error", err |-> NewError("api", "unable to parse API response"),
          payload |-> << >>]
    ELSE IF res.status = StatusUnauthorized
    THEN [result |-> "error", err |-> NewError("api", "unauthorized request"),
          payload |-> << >>]
    ELSE IF res.status # StatusOK
    THEN IF res.decoded = << >> THEN [result |-> "panic", err |-> Nil, payload |-> << >>]
         ELSE IF res.decoded[1].Error.Type = "track_ambiguous"
         THEN [result |-> "error",
               err |-> [kind |-> "track_ambiguous",
                        msg |-> res.decoded[1].Error.Message,
                        ids |-> res.decoded[1].Error.PossibleTrackIDs],
               payload |-> << >>]
         ELSE [result |-> "error", err |-> NewError("api", res.decoded[1].Error.Message),
               payload |-> << >>]
    ELSE [result |-> "ok", err |-> Nil, payload |-> res.decoded]

\* The ws.Exercise both writers build from the payload (139-152, 171-182).
exerciseFromPayload(os, d, pl) ==
    LET root0 == d.workspace
        root1 == IF pl.Solution.Team.Slug # << >>
                 THEN Join(os, <<root0, <<"teams">>, pl.Solution.Team.Slug>>)
                 ELSE root0
        root2 == IF ~pl.Solution.User.IsRequester
                 THEN Join(os, <<root1, <<"users">>, pl.Solution.User.Handle>>)
                 ELSE root1
    IN  [Root |-> root2, Track |-> pl.Solution.Exercise.Track.ID,
         Slug |-> pl.Solution.Exercise.ID]

\* writeMetadataFromPayload (121-163).
writeMetadataFromPayload(os, dsk, d, pl) ==
    LET md == [AutoApprove |-> pl.Solution.Exercise.AutoApprove,
               Track |-> pl.Solution.Exercise.Track.ID,
               Team |-> pl.Solution.Team.Slug,
               Exercise |-> pl.Solution.Exercise.ID,
               ID |-> pl.Solution.ID,
               URL |-> pl.Solution.URL,
               Handle |-> pl.Solution.User.Handle,
               IsRequester |-> pl.Solution.User.IsRequester]
        dir == MetadataDir(os, exerciseFromPayload(os, d, pl))
        made == MkdirAll(os, dsk, dir)
    IN  IF pl.Error.Message # "" THEN [ok |-> FALSE, disk |-> dsk]
        ELSE IF ~made.ok THEN made
        ELSE Write(os, made.disk, md, dir)

\* One pass of the loop of writeSolutionFilesFromPayload (184-242); the Close
\* of every body and file is deferred to the return of the function.
writeSolutionFileFromPayload(os, dsk, d, pl, i, o) ==
    LET name == pl.Solution.Files[i]
        dest == MetadataDir(os, exerciseFromPayload(os, d, pl))
        relativePath == FromSlash(os, rewriteBackslashes(
                            stripNumericSuffix(name, pl.Solution.Exercise.ID)))
        made == MkdirAll(os, dsk, Join(os, <<dest, Dir(os, relativePath)>>))
        created == Create(os, made.disk, Join(os, <<dest, relativePath>>),
                          [from |-> name, whole |-> o # "truncated"])
    IN  IF o = "badurl"
        THEN [req |-> FALSE, disk |-> dsk, err |-> NewError("url", "invalid URI for request")]
        ELSE IF o = "transport"
        THEN [req |-> TRUE, disk |-> dsk, err |-> NewError("transport", "file")]
        ELSE IF o \in {"notfound", "empty"}
        THEN [req |-> TRUE, disk |-> dsk, err |-> Nil]
        ELSE IF ~made.ok
        THEN [req |-> TRUE, disk |-> dsk, err |-> NewError("fs", "mkdir")]
        ELSE IF ~created.ok
        THEN [req |-> TRUE, disk |-> made.disk, err |-> NewError("fs", "create")]
        ELSE [req |-> TRUE, disk |-> created.disk,
              err |-> IF o = "truncated" THEN NewError("copy", "unexpected EOF") ELSE Nil]

(***************************************************************************)
(* The run of a download: newDownloadFromFlags, newDownloadFromExercise or *)
(* newDownload called with params of the caller's own.                     *)
(***************************************************************************)
\* The writer before any of its methods is called.
NoWriterRun ==
    [calls |-> << >>, i |-> 0, open |-> {}, deferred |-> {}, outcomes |-> << >>,
     files |-> "none", filesErr |-> Nil, meta |-> "none"]

\* The functions that take the payload as an argument have not been called.
NoFlatRun ==
    [calls |-> << >>, requests |-> << >>, payload |-> << >>, result |-> "none", err |-> Nil,
     disk |-> EmptyDisk, meta |-> "none", files |-> "none", filesErr |-> Nil, i |-> 0]

NoWriting == disk = EmptyDisk /\ w = NoWriterRun /\ flat = NoFlatRun

NoSanitizerRun ==
    /\ file = << >> /\ slugArg = << >> /\ replaced = << >> /\ native = << >>
    /\ again = << >>

Init ==
    /\ pc = "start"
    /\ goos \in GOOS
    /\ entry = "none"
    /\ params = << >>
    /\ requests = << >>
    /\ response = NoResponse
    /\ payload = << >>
    /\ location = << >>
    /\ result = "none"
    /\ err = Nil
    /\ NoSanitizerRun
    /\ NoWriting

\* The run ends with the error e.
Fail(e) ==
    /\ pc' = "done"
    /\ result' = "error"
    /\ err' = e

\* newDownloadFromFlags (116-122) up to its call of newDownload:
\* newDownloadParamsFromFlags (353-374) reads the flags and validates.
NewDownloadFromFlags ==
    /\ pc = "start"
    /\ \E usrCfg \in UserConfigs, flags \in FlagSets, flagErr \in BOOLEAN :
          IF flagErr
          THEN /\ params' = << >>
               /\ Fail(NewError("flag", "flag accessed but not defined"))
          ELSE LET d == paramsFromFlags(usrCfg, flags)
               IN  /\ params' = <<d>>
                   /\ IF validate(d) # Nil
                      THEN Fail(validate(d))
                      ELSE /\ pc' = "newDownload"
                           /\ UNCHANGED <<result, err>>
    /\ entry' = "flags"
    /\ UNCHANGED <<goos, requests, response, payload, location, sanitizerVars, writerVars>>

\* newDownloadFromExercise (107-113) up to its call of newDownload.
NewDownloadFromExercise ==
    /\ pc = "start"
    /\ \E usrCfg \in UserConfigs, ex \in LocalExercises :
          LET d == paramsFromExercise(usrCfg, ex)
          IN  /\ params' = <<d>>
              /\ IF validate(d) # Nil
                 THEN Fail(validate(d))
                 ELSE /\ pc' = "newDownload"
                      /\ UNCHANGED <<result, err>>
    /\ entry' = "exercise"
    /\ UNCHANGED <<goos, requests, response, payload, location, sanitizerVars, writerVars>>

\* newDownload (125) called with any downloadParams value.
NewDownloadDirect ==
    /\ pc = "start"
    /\ \E d \in downloadParams : params' = <<d>>
    /\ entry' = "direct"
    /\ pc' = "newDownload"
    /\ UNCHANGED <<goos, requests, response, payload, location, result, err, sanitizerVars, writerVars>>

\* Fault: newDownload without its call of params.validate.
NewDownloadSendUnvalidated ==
    /\ pc = "newDownload"
    /\ requests' = Append(requests, lookupRequest(params[1]))
    /\ pc' = "awaiting"
    /\ UNCHANGED <<goos, entry, params, response, payload, location, result, err, sanitizerVars, writerVars>>

\* Fault: newDownload issuing its request a second time.
NewDownloadSendTwice ==
    /\ pc = "newDownload"
    /\ IF validate(params[1]) # Nil
       THEN /\ Fail(validate(params[1]))
            /\ UNCHANGED requests
       ELSE /\ requests' = requests \o <<lookupRequest(params[1]), lookupRequest(params[1])>>
            /\ pc' = "awaiting"
            /\ UNCHANGED <<result, err>>
    /\ UNCHANGED <<goos, entry, params, response, payload, location, sanitizerVars, writerVars>>

\* newDownload up to client.Do (125-143): validation, the client, the request.
NewDownloadSend ==
    /\ pc = "newDownload"
    /\ IF validate(params[1]) # Nil
       THEN /\ Fail(validate(params[1]))
            /\ UNCHANGED requests
       ELSE \E setup \in {"ok", "NewClient", "NewRequest"} :
               IF setup # "ok"
               THEN /\ Fail(NewError("client", setup))
                    /\ UNCHANGED requests
               ELSE /\ requests' = Append(requests, lookupRequest(params[1]))
                    /\ pc' = "awaiting"
                    /\ UNCHANGED <<result, err>>
    /\ UNCHANGED <<goos, entry, params, response, payload, location, sanitizerVars, writerVars>>

\* newDownload from the return of client.Do on (143-167).
NewDownloadReceive ==
    /\ pc = "awaiting"
    /\ \E res \in Responses :
          /\ response' = res
          /\ payload' = res.decoded
          /\ result' = classify(res).result
          /\ err' = classify(res).err
    /\ pc' = "done"
    /\ UNCHANGED <<goos, entry, params, requests, location, sanitizerVars, writerVars>>

\* d.exercise() (236-242) on the download newDownload returned without error.
DownloadExercise ==
    /\ pc = "done"
    /\ result = "ok"
    /\ location = << >>
    /\ location' = <<exercise(goos, params[1], payload[1])>>
    /\ UNCHANGED <<pc, goos, entry, params, requests, response, payload, result, err,
                   sanitizerVars, writerVars>>

Next ==
    \/ NewDownloadFromFlags
    \/ NewDownloadFromExercise
    \/ NewDownloadDirect
    \/ NewDownloadSend
    \/ NewDownloadReceive
    \/ DownloadExercise

Spec == Init /\ [][Next]_vars

(***************************************************************************)
(* The downloadWriter on a download that newDownload returned: its two     *)
(* methods, each called at most once, in either order.                     *)
(***************************************************************************)
MaxFiles == 2

\* File names of the payload: foo, foo/bar, ..\foo, /slug-2/.
FileNames ==
    {<<"f">>,
     <<"f", "/", "b">>,
     <<"..", "\\", "f">>,
     <<"/", "e", "-", "2", "/">>}

\* Every list of at most MaxFiles names, and a longer one: foo, ..\foo, foo.
FileLists ==
    UNION {[1..n -> FileNames] : n \in 0..MaxFiles}
        \cup {<<(<<"f">>), (<<"..", "\\", "f">>), (<<"f">>)>>}

\* Params that pass validate, from newDownloadFromExercise or from flags.
WriterParams ==
    {d \in downloadParams :
        /\ validate(d) = Nil
        /\ d.slug = "hello" /\ d.track = "" /\ d.team = ""
        /\ d.workspace = <<"/", "ws">>
        /\ d.fromFlags = ~d.fromExercise}

\* Payloads that pass download.validate: the requester's own solution and a
\* team-mate's solution, with any list of files.
WriterPayloads ==
    {pl \in [Solution : [ID : {"sol1"}, URL : {"https://site/sol1"},
                         Team : [Slug : {<< >>, <<"acme">>}],
                         User : [Handle : {<<"bob">>}, IsRequester : BOOLEAN],
                         Exercise : [ID : ExerciseIDs, AutoApprove : {TRUE},
                                     Track : [ID : TrackIDs]],
                         FileDownloadBaseURL : {"https://files/"},
                         Files : FileLists],
              Error : {[Type |-> "", Message |-> "", PossibleTrackIDs |-> << >>]}] :
        pl.Solution.User.IsRequester = (pl.Solution.Team.Slug = << >>)}

InitWriter ==
    /\ pc = "done"
    /\ goos \in GOOS
    /\ entry = "direct"
    /\ params \in {<<d>> : d \in WriterParams}
    /\ payload \in {<<pl>> : pl \in WriterPayloads}
    /\ requests = <<lookupRequest(params[1])>>
    /\ response = [transport |-> "ok", status |-> StatusOK, body |-> "object",
                   decoded |-> payload]
    /\ location = << >>
    /\ result = "ok"
    /\ err = Nil
    /\ NoSanitizerRun
    /\ NoWriting

\* Fault: requestFile without its test of the Content-Length header.
requestFileStatusOnly(o) ==
    IF o = "badurl"
    THEN [req |-> FALSE, res |-> "nil", opened |-> FALSE,
          err |-> NewError("url", "invalid URI for request")]
    ELSE IF o = "transport"
    THEN [req |-> TRUE, res |-> "nil", opened |-> FALSE, err |-> NewError("transport", "file")]
    ELSE IF o = "notfound"
    THEN [req |-> TRUE, res |-> "nil", opened |-> TRUE, err |-> Nil]
    ELSE [req |-> TRUE, res |-> "res", opened |-> TRUE, err |-> Nil]

\* Fault: requestFile returning nil, nil where it returns an error.
requestFileSwallowsErrors(o) ==
    IF o = "badurl"
    THEN [req |-> FALSE, res |-> "nil", opened |-> FALSE, err |-> Nil]
    ELSE IF o = "transport"
    THEN [req |-> TRUE, res |-> "nil", opened |-> FALSE, err |-> Nil]
    ELSE IF o \in {"notfound", "empty"}
    THEN [req |-> TRUE, res |-> "nil", opened |-> TRUE, err |-> Nil]
    ELSE [req |-> TRUE, res |-> "res", opened |-> TRUE, err |-> Nil]

\* download.requestFile (194-221): whether client.Do was called, whether a
\* response or nil is returned, whether a response body was opened, the error.
\* A response with another status than 200, or with Content-Length "0", makes
\* it return nil, nil, its body left open.
requestFile(o) ==
    IF o = "badurl"
    THEN [req |-> FALSE, res |-> "nil", opened |-> FALSE,
          err |-> NewError("url", "invalid URI for request")]
    ELSE IF o = "transport"
    THEN [req |-> TRUE, res |-> "nil", opened |-> FALSE, err |-> NewError("transport", "file")]
    ELSE IF o \in {"notfound", "empty"}
    THEN [req |-> TRUE, res |-> "nil", opened |-> TRUE, err |-> Nil]
    ELSE [req |-> TRUE, res |-> "res", opened |-> TRUE, err |-> Nil]

\* One pass of the loop of writeSolutionFiles (296-322) over the file name:
\* whether a request was issued, the handles opened, the handles whose Close
\* was deferred, the disk and the error.
writeSolutionFile(os, dsk, p, pl, i, o) ==
    LET filename == pl.Solution.Files[i]
        got == requestFile(o)
        body == <<"body", i>>
        f == <<"file", i>>
        path == fileWritePath(os, p, pl, filename)
        made == MkdirAll(os, dsk, Dir(os, path))
        created == Create(os, made.disk, path, [from |-> filename, whole |-> o # "truncated"])
    IN  IF got.err # Nil \/ got.res = "nil"
        THEN [req |-> got.req, open |-> IF got.opened THEN {body} ELSE {}, deferred |-> {},
              disk |-> dsk, err |-> got.err]
        ELSE IF ~made.ok
        THEN [req |-> TRUE, open |-> {body}, deferred |-> {body}, disk |-> dsk,
              err |-> NewError("fs", "mkdir")]
        ELSE IF ~created.ok
        THEN [req |-> TRUE, open |-> {body}, deferred |-> {body}, disk |-> made.disk,
              err |-> NewError("fs", "create")]
        ELSE [req |-> TRUE, open |-> {body, f}, deferred |-> {body, f},
              disk |-> created.disk,
              err |-> IF o = "truncated" THEN NewError("copy", "unexpected EOF") ELSE Nil]

\* downloadWriter.writeMetadata (283-286).
WriteMetadata ==
    /\ pc = "done"
    /\ result = "ok"
    /\ w.meta = "none"
    /\ LET wrote == Write(goos, disk, metadata(payload[1]),
                          destination(goos, params[1], payload[1]))
       IN  /\ disk' = wrote.disk
           /\ w' = [w EXCEPT !.calls = Append(@, "writeMetadata"),
                             !.meta = IF wrote.ok THEN "ok" ELSE "error"]
    /\ UNCHANGED <<pc, goos, pipelineVars, sanitizerVars, flat>>

\* Fault: writeSolutionFiles without its test of params.fromExercise.
WriteSolutionFilesUnguarded ==
    /\ pc = "done"
    /\ result = "ok"
    /\ w.files = "none"
    /\ w' = [w EXCEPT !.calls = Append(@, "writeSolutionFiles"),
                      !.files = "running", !.i = 1]
    /\ pc' = "files"
    /\ UNCHANGED <<goos, pipelineVars, sanitizerVars, disk, flat>>

\* downloadWriter.writeSolutionFiles up to its loop (291-295).
WriteSolutionFiles ==
    /\ pc = "done"
    /\ result = "ok"
    /\ w.files = "none"
    /\ IF params[1].fromExercise
       THEN /\ w' = [w EXCEPT !.calls = Append(@, "writeSolutionFiles"),
                              !.files = "error",
                              !.filesErr = NewError("overwrite",
                                  "existing exercise files should not be overwritten")]
            /\ pc' = pc
       ELSE /\ w' = [w EXCEPT !.calls = Append(@, "writeSolutionFiles"),
                              !.files = "running", !.i = 1]
            /\ pc' = "files"
    /\ UNCHANGED <<goos, pipelineVars, sanitizerVars, disk, flat>>

\* One pass of the loop; an error returns at once and runs the deferred Closes.
WriteSolutionFile ==
    /\ pc = "files"
    /\ w.i <= Len(payload[1].Solution.Files)
    /\ \E o \in FileOutcomes :
          LET step == writeSolutionFile(goos, disk, params[1], payload[1], w.i, o)
          IN  /\ requests' = IF step.req
                             THEN Append(requests,
                                      fileRequest(payload[1], payload[1].Solution.Files[w.i]))
                             ELSE requests
              /\ disk' = step.disk
              /\ IF step.err # Nil
                 THEN /\ w' = [w EXCEPT !.outcomes = Append(@, o),
                                        !.open = (@ \cup step.open)
                                                     \ (w.deferred \cup step.deferred),
                                        !.deferred = {},
                                        !.files = "error",
                                        !.filesErr = step.err]
                      /\ pc' = "done"
                 ELSE /\ w' = [w EXCEPT !.outcomes = Append(@, o),
                                        !.open = @ \cup step.open,
                                        !.deferred = @ \cup step.deferred,
                                        !.i = @ + 1]
                      /\ pc' = pc
    /\ UNCHANGED <<goos, entry, params, response, payload, location, result, err,
                   sanitizerVars, flat>>

\* The end of the loop (324): the deferred Closes run and nil is returned.
WriteSolutionFilesReturn ==
    /\ pc = "files"
    /\ w.i > Len(payload[1].Solution.Files)
    /\ w' = [w EXCEPT !.open = @ \ w.deferred, !.deferred = {}, !.files = "ok"]
    /\ pc' = "done"
    /\ UNCHANGED <<goos, pipelineVars, sanitizerVars, disk, flat>>

NextWriter ==
    \/ WriteMetadata
    \/ WriteSolutionFiles
    \/ WriteSolutionFile
    \/ WriteSolutionFilesReturn

SpecWriter == InitWriter /\ [][NextWriter]_vars

(***************************************************************************)
(* A whole run: newDownload, then both methods of the writer; after it the *)
(* functions that take the payload as an argument are run on a disk of     *)
(* their own with the same params, the same response to the lookup and the *)
(* same responses to the file requests.                                    *)
(***************************************************************************)
\* Params a caller hands to newDownload and to getDownloadPayload alike.
PipelineParams ==
    {d \in downloadParams :
        /\ d.token = "tok" /\ d.apibaseurl = "https://api" /\ d.workspace = <<"/", "ws">>
        /\ d.track = "" /\ d.team = ""
        /\ ~(d.slug # "" /\ d.uuid # "")
        /\ ~d.fromExercise}

InitPipeline ==
    /\ pc = "newDownload"
    /\ goos \in GOOS
    /\ entry = "direct"
    /\ params \in {<<d>> : d \in PipelineParams}
    /\ requests = << >>
    /\ response = NoResponse
    /\ payload = << >>
    /\ location = << >>
    /\ result = "none"
    /\ err = Nil
    /\ NoSanitizerRun
    /\ NoWriting

\* The run of newDownload and of the writer is over.
Finished ==
    /\ pc = "done"
    /\ result = "ok" => (w.meta # "none" /\ w.files \in {"ok", "error"})

\* The writer function the caller calls next: the order is the order in which
\* the methods of the writer were called.
Due(call) ==
    /\ call \notin {flat.calls[k] : k \in 1..Len(flat.calls)}
    /\ w.calls # << >> => w.calls[Len(flat.calls) + 1] = call

\* getDownloadPayload (63-119) with the response newDownload got.
GetDownloadPayload ==
    /\ Finished
    /\ response # NoResponse
    /\ flat.result = "none"
    /\ LET got == getDownloadPayload(response)
       IN  flat' = [flat EXCEPT !.requests = <<getDownloadPayloadRequest(params[1])>>,
                                !.payload = got.payload,
                                !.result = got.result,
                                !.err = got.err]
    /\ UNCHANGED <<pc, goos, pipelineVars, sanitizerVars, disk, w>>

\* writeMetadataFromPayload (121-163); a nil payload is dereferenced at 122.
WriteMetadataFromPayload ==
    /\ flat.result = "ok"
    /\ flat.files # "running"
    /\ Due("writeMetadata")
    /\ IF flat.payload = << >>
       THEN flat' = [flat EXCEPT !.calls = Append(@, "writeMetadata"), !.meta = "panic"]
       ELSE LET wrote == writeMetadataFromPayload(goos, flat.disk, params[1], flat.payload[1])
            IN  flat' = [flat EXCEPT !.calls = Append(@, "writeMetadata"),
                                     !.disk = wrote.disk,
                                     !.meta = IF wrote.ok THEN "ok" ELSE "error"]
    /\ UNCHANGED <<pc, goos, pipelineVars, sanitizerVars, disk, w>>

\* writeSolutionFilesFromPayload up to its loop (165-183); a nil payload is
\* dereferenced at 166.
WriteSolutionFilesFromPayload ==
    /\ flat.result = "ok"
    /\ Due("writeSolutionFiles")
    /\ flat' = [flat EXCEPT !.calls = Append(@, "writeSolutionFiles"),
                            !.files = IF flat.payload = << >> THEN "panic"
                                      ELSE IF flat.payload[1].Error.Message # "" THEN "error"
                                      ELSE "running",
                            !.filesErr = IF flat.payload # << >>
                                            /\ flat.payload[1].Error.Message # ""
                                         THEN NewError("api", flat.payload[1].Error.Message)
                                         ELSE Nil,
                            !.i = 1]
    /\ UNCHANGED <<pc, goos, pipelineVars, sanitizerVars, disk, w>>

\* One pass of its loop (184-242).  The request gets what the request of the
\* writer for the same entry got, when the writer made one.
WriteSolutionFileFromPayload ==
    /\ flat.files = "running"
    /\ flat.i <= Len(flat.payload[1].Solution.Files)
    /\ \E o \in FileOutcomes :
          /\ flat.i <= Len(w.outcomes) => o = w.outcomes[flat.i]
          /\ LET step == writeSolutionFileFromPayload(goos, flat.disk, params[1],
                                                      flat.payload[1], flat.i, o)
                 sent == IF step.req
                         THEN Append(flat.requests,
                                  fileRequest(flat.payload[1],
                                              flat.payload[1].Solution.Files[flat.i]))
                         ELSE flat.requests
             IN  flat' = [flat EXCEPT !.disk = step.disk,
                                      !.requests = sent,
                                      !.files = IF step.err # Nil THEN "error" ELSE @,
                                      !.filesErr = step.err,
                                      !.i = IF step.err # Nil THEN @ ELSE @ + 1]
    /\ UNCHANGED <<pc, goos, pipelineVars, sanitizerVars, disk, w>>

\* The end of its loop (245).
WriteSolutionFilesFromPayloadReturn ==
    /\ flat.files = "running"
    /\ flat.i > Len(flat.payload[1].Solution.Files)
    /\ flat' = [flat EXCEPT !.files = "ok"]
    /\ UNCHANGED <<pc, goos, pipelineVars, sanitizerVars, disk, w>>

NextPipeline ==
    \/ NewDownloadSend
    \/ NewDownloadReceive
    \/ WriteMetadata
    \/ WriteSolutionFiles
    \/ WriteSolutionFile
    \/ WriteSolutionFilesReturn
    \/ GetDownloadPayload
    \/ WriteMetadataFromPayload
    \/ WriteSolutionFilesFromPayload
    \/ WriteSolutionFileFromPayload
    \/ WriteSolutionFilesFromPayloadReturn

SpecPipeline == InitPipeline /\ [][NextPipeline]_vars

(***************************************************************************)
(* A call of sanitizeLegacyNumericSuffixFilepath on any file name of at    *)
(* most MaxLen atoms.                                                      *)
(***************************************************************************)
\* Both separators, the word used as the slug, the dash and a digit.
Alphabet == {"/", "\\", "e", "-", "2"}

Filenames == UNION {[1..n -> Alphabet] : n \in 0..MaxLen}

\* File names with other words in them: slug-2/foo/bar, /slug-2/foo/bar,
\* /slug-2/foo, \slug-/foo\bar, foo\bar, foo\bar\foo, /foo/slug-22/bar.
NamedFilenames ==
    {<<"e", "-", "2", "/", "f", "/", "b">>,
     <<"/", "e", "-", "2", "/", "f", "/", "b">>,
     <<"/", "e", "-", "2", "/", "f">>,
     <<"\\", "e", "-", "/", "f", "\\", "b">>,
     <<"f", "\\", "b">>,
     <<"f", "\\", "b", "\\", "f">>,
     <<"/", "f", "/", "e", "-", "2", "2", "/", "b">>}

InitSanitize ==
    /\ pc = "sanitize"
    /\ goos \in GOOS
    /\ file \in Filenames \cup NamedFilenames
    /\ slugArg \in ExerciseIDs
    /\ replaced = << >>
    /\ native = << >>
    /\ again = << >>
    /\ entry = "none"
    /\ params = << >>
    /\ requests = << >>
    /\ response = NoResponse
    /\ payload = << >>
    /\ location = << >>
    /\ result = "none"
    /\ err = Nil
    /\ NoWriting

Sanitize ==
    /\ pc = "sanitize"
    /\ replaced' = sanitizedSlashPath(file, slugArg)
    /\ native' = sanitizeLegacyNumericSuffixFilepath(goos, file, slugArg)
    /\ pc' = "sanitized"
    /\ UNCHANGED <<goos, file, slugArg, again, pipelineVars, writerVars>>

\* A second call, on the value the first call returned, with the same slug.
SanitizeAgain ==
    /\ pc = "sanitized"
    /\ again' = sanitizeLegacyNumericSuffixFilepath(goos, native, slugArg)
    /\ pc' = "resanitized"
    /\ UNCHANGED <<goos, file, slugArg, replaced, native, pipelineVars, writerVars>>

NextSanitize ==
    \/ Sanitize
    \/ SanitizeAgain

SpecSanitize == InitSanitize /\ [][NextSanitize]_vars

(***************************************************************************)
(* Properties.                                                             *)
(***************************************************************************)

\* C1: params whose slug and uuid are both set or both empty are rejected by
\* validate with the slug-xor-uuid error, whatever the other fields and flags
\* are, and a run given them ends with that error; when exactly one of the two
\* is set, the slug-xor-uuid rule raises no error.
C1_SlugXorUUID ==
    params # << >> =>
        LET d == params[1]
            both == d.slug # "" /\ d.uuid # ""
            neither == d.slug = "" /\ d.uuid = ""
        IN  /\ (both \/ neither) =>
                /\ validate(d) # Nil
                /\ validate(d).msg =
                       IF d.fromFlags
                       THEN "need an --exercise name or a solution --uuid"
                       ELSE "need a 'slug' or a 'uuid'"
                /\ pc = "done" => result = "error" /\ err = validate(d)
            /\ ~(both \/ neither) => needsSlugXorUUID(d) = Nil

C1_Witness ==
    /\ pc = "done"
    /\ params # << >>
    /\ params[1].slug = "hello"
    /\ params[1].uuid = "x1"
    /\ params[1].token = "tok"
    /\ result = "error"
    /\ err.msg = "need a 'slug' or a 'uuid'"

\* C2: with exactly one of slug/uuid set and exactly one of token, apibaseurl,
\* workspace empty, validate fails with the "missing required user config" error
\* that names that field, and a run given such params ends with it.
C2_MissingConfigNamesField ==
    params # << >> =>
        LET d == params[1]
            missing == {f \in {"token", "apibaseurl", "workspace"} :
                           \/ f = "token" /\ d.token = ""
                           \/ f = "apibaseurl" /\ d.apibaseurl = ""
                           \/ f = "workspace" /\ d.workspace = << >>}
        IN  ((d.slug # "") # (d.uuid # "") /\ Cardinality(missing) = 1) =>
                /\ \A f \in missing :
                       validate(d) = NewError("config",
                           IF f = "token" THEN "missing required user config: 'token'"
                           ELSE IF f = "apibaseurl"
                                THEN "missing required user config: 'apibaseurl'"
                                ELSE "missing required user config: 'workspace'")
                /\ pc = "done" => result = "error" /\ err = validate(d)

C2_Witness ==
    /\ pc = "done"
    /\ params # << >>
    /\ params[1].uuid = "x1"
    /\ params[1].slug = ""
    /\ params[1].token = "tok"
    /\ params[1].apibaseurl = "https://api"
    /\ params[1].workspace = << >>
    /\ err = NewError("config", "missing required user config: 'workspace'")

\* C3: params built from flags with team or track set and no slug are rejected by
\* validate, so a run started from flags never enters newDownload, nor issues a
\* request, with a team or a track and no slug.
C3_FlagsTeamOrTrackNeedSlug ==
    params # << >> =>
        LET d == params[1]
        IN  (d.fromFlags /\ (d.team # "" \/ d.track # "") /\ d.slug = "") =>
                /\ validate(d) # Nil
                /\ entry = "flags" => pc = "done" /\ result = "error" /\ requests = << >>
                /\ requests = << >>

C3_Witness ==
    /\ entry = "flags"
    /\ pc = "done"
    /\ params # << >>
    /\ params[1].uuid = "x1"
    /\ params[1].slug = ""
    /\ params[1].track = "go"
    /\ err = NewError("validation", "--team or --track requires --exercise (not --uuid)")

\* C4: every params that validate accepts, whatever its flags, has exactly one of
\* slug/uuid set, has token, apibaseurl and workspace set, and has a slug when it
\* has a track or a team.  Stated of the params newDownload has validated and
\* gone on with.
C4_AcceptedParamsSatisfyInvariant ==
    (params # << >> /\ validate(params[1]) = Nil /\ pc \in {"awaiting", "done"}) =>
        LET d == params[1]
        IN  /\ (d.slug # "") # (d.uuid # "")
            /\ d.token # "" /\ d.apibaseurl # "" /\ d.workspace # << >>
            /\ (d.track # "" \/ d.team # "") => d.slug # ""

\* C5: no request is issued before the params have passed validation; when they
\* fail it, the run ends with the validation error and has issued no request.
C5_ValidationBeforeNetwork ==
    /\ requests # << >> => params # << >> /\ validate(params[1]) = Nil
    /\ (pc = "done" /\ params # << >> /\ validate(params[1]) # Nil) =>
           /\ result = "error"
           /\ err = validate(params[1])
           /\ requests = << >>

C5_Witness ==
    /\ pc = "awaiting"
    /\ entry = "direct"
    /\ Len(requests) = 1
    /\ validate(params[1]) = Nil

\* C6: the lookup request of validated params targets {apibaseurl}/solutions/{id}
\* with id the uuid when it is set and "latest" otherwise; it has query parameters
\* exactly when the slug is set: exercise_id = slug, track_id = track only when
\* the track is set, team_id = team only when the team is set.
C6_LookupRequest ==
    requests # << >> =>
        LET d == params[1]
            r == requests[1]
            pairs == {r.rawQuery[i] : i \in 1..Len(r.rawQuery)}
            keys == {kv[1] : kv \in pairs}
        IN  /\ r.kind = "lookup"
            /\ r.url[1] = d.apibaseurl
            /\ r.url[2] = "/solutions/"
            /\ d.uuid # "" => r.url[3] = d.uuid
            /\ d.uuid = "" => r.url[3] = "latest"
            /\ (r.rawQuery # << >>) <=> (d.slug # "")
            /\ d.slug # "" =>
                   /\ <<"exercise_id", d.slug>> \in pairs
                   /\ ("track_id" \in keys) <=> (d.track # "")
                   /\ ("team_id" \in keys) <=> (d.team # "")
                   /\ d.track # "" => <<"track_id", d.track>> \in pairs
                   /\ d.team # "" => <<"team_id", d.team>> \in pairs
                   /\ Len(r.rawQuery) = Cardinality(keys)
            /\ d.uuid # "" => r.rawQuery = << >>

C6_Witness ==
    /\ pc = "awaiting"
    /\ params[1].slug = "hello"
    /\ params[1].track = "go"
    /\ params[1].team = ""
    /\ requests = <<[kind |-> "lookup", method |-> "GET",
                     url |-> <<"https://api", "/solutions/", "latest">>,
                     rawQuery |-> <<<<"exercise_id", "hello">>, <<"track_id", "go">>>>]>>

\* C7: newDownload returns without error only if the lookup response had status
\* 200 and the decoded payload has a Solution.ID and no Error.Message; every other
\* response (a 200 violating either condition, a non-200 status, a transport
\* failure, a body that does not decode) yields an error.
C7_SuccessOnlyForValidPayload ==
    LET good == /\ response.transport = "ok"
                /\ response.status = StatusOK
                /\ response.decoded # << >>
                /\ response.decoded[1].Solution.ID # ""
                /\ response.decoded[1].Error.Message = ""
    IN  /\ result = "ok" => good
        /\ (pc = "done" /\ response # NoResponse /\ ~good) =>
               result = "error" /\ err # Nil

\* C8: the destination root is the workspace, followed by teams/{Team.Slug} exactly
\* when Team.Slug is set, followed by users/{User.Handle} exactly when IsRequester
\* is false, in that order, as filepath.Join leaves it (host separators, cleaned;
\* an empty handle adds no element); exercise() pairs it with Track =
\* Exercise.Track.ID and Slug = Exercise.ID.
C8_SolutionRoot ==
    location # << >> =>
        LET d == params[1]
            sol == payload[1].Solution
            team == IF sol.Team.Slug # << >>
                    THEN <<"/", "teams", "/">> \o sol.Team.Slug ELSE << >>
            user == IF ~sol.User.IsRequester
                    THEN <<"/", "users">> \o
                         (IF sol.User.Handle # << >> THEN <<"/">> \o sol.User.Handle
                          ELSE << >>)
                    ELSE << >>
            raw == d.workspace \o team \o user
            plain == sol.Team.Slug # <<"..">>
        IN  /\ location[1].Root =
                   IF team = << >> /\ user = << >> THEN d.workspace ELSE Clean(goos, raw)
            /\ plain => location[1].Root =
                   IF team = << >> /\ user = << >> THEN d.workspace
                   ELSE FromSlash(goos, raw)
            /\ location[1].Track = sol.Exercise.Track.ID
            /\ location[1].Slug = sol.Exercise.ID

C8_Witness ==
    /\ location # << >>
    /\ goos = "linux"
    /\ params[1].workspace = <<"/", "ws">>
    /\ payload[1].Solution.Team.Slug = <<"acme">>
    /\ payload[1].Solution.User.IsRequester = FALSE
    /\ payload[1].Solution.User.Handle = <<"bob">>
    /\ location[1].Root = <<"/", "ws", "/", "teams", "/", "acme", "/", "users", "/", "bob">>

\* C9 as stated: a file name that starts with {slug}-<digits>/ loses that
\* leading element; "exercise-2/foo/bar.rb" with slug "exercise" comes out as
\* "foo/bar.rb" (native separators).
C9_LeadingSegmentStripped ==
    pc = "sanitized" =>
        LET n == Len(slugArg)
            slash == DigitsEnd(file, n + 2)
            leading == /\ Len(file) >= n + 3
                       /\ SubSeq(file, 1, n) = slugArg
                       /\ file[n + 1] = "-"
                       /\ slash > n + 2
                       /\ slash <= Len(file)
                       /\ file[slash] = "/"
            rest == SubSeq(file, slash + 1, Len(file))
        IN  leading =>
                native = FromSlash(goos, [i \in 1..Len(rest) |->
                                             IF rest[i] = "\\" THEN "/" ELSE rest[i]])

\* C9 amended: the element is stripped when a separator (/ or \) stands directly
\* before it.  Where a separator, the slug, a dash, any number of digits and a
\* slash follow each other and no such run starts later in the name, the name
\* loses everything up to and including that slash; a name with no such run loses
\* nothing.  In both cases backslashes become slashes and the result has native
\* separators: "/exercise-2/foo/bar.rb" gives "foo/bar.rb", while
\* "exercise-2/foo/bar.rb" stays as it is.
C9_SeparatorThenSegmentStripped ==
    pc = "sanitized" =>
        LET n == Len(slugArg)
            IsSegment(i, j) ==
                /\ i + n + 1 < j
                /\ j <= Len(file)
                /\ file[i] \in {"/", "\\"}
                /\ SubSeq(file, i + 1, i + n) = slugArg
                /\ file[i + n + 1] = "-"
                /\ \A k \in (i + n + 2)..(j - 1) : file[k] \in Digits
                /\ file[j] = "/"
            Slashed(s) == [i \in 1..Len(s) |-> IF s[i] = "\\" THEN "/" ELSE s[i]]
            Segments == {ij \in (1..Len(file)) \X (1..Len(file)) : IsSegment(ij[1], ij[2])}
        IN  /\ \A ij \in Segments :
                   (\A other \in Segments : other[1] <= ij[1]) =>
                       native = FromSlash(goos, Slashed(SubSeq(file, ij[2] + 1, Len(file))))
            /\ Segments = {} => native = FromSlash(goos, Slashed(file))

C9_Witness ==
    /\ pc = "sanitized"
    /\ goos = "linux"
    /\ slugArg = <<"e">>
    /\ file = <<"/", "e", "-", "2", "/", "f", "/", "b">>
    /\ native = <<"f", "/", "b">>

\* C10: before the conversion to native separators the sanitized name holds no
\* backslash: it is the (possibly stripped) name with every backslash replaced by
\* a slash and every other character kept; f\b gives f/b.
C10_BackslashesRewritten ==
    pc = "sanitized" =>
        LET stripped == stripNumericSuffix(file, slugArg)
        IN  /\ \A i \in 1..Len(replaced) : replaced[i] # "\\"
            /\ Len(replaced) = Len(stripped)
            /\ \A i \in 1..Len(stripped) :
                   replaced[i] = IF stripped[i] = "\\" THEN "/" ELSE stripped[i]
            /\ file = <<"f", "\\", "b">> => replaced = <<"f", "/", "b">>
            /\ native = FromSlash(goos, replaced)

C10_Witness ==
    /\ pc = "sanitized"
    /\ file = <<"f", "\\", "b">>
    /\ replaced = <<"f", "/", "b">>

\* C18: of several violated rules validate reports the first in the order
\* slug-xor-uuid, token, apibaseurl, workspace, team/track without slug: the error
\* of a later rule is never returned while an earlier rule is violated, and a run
\* given such params ends with that first error.
C18_FirstViolatedRuleWins ==
    params # << >> =>
        LET d == params[1]
            xor == (d.slug # "") # (d.uuid # "")
            scoped == d.fromFlags /\ (d.team # "" \/ d.track # "") /\ d.slug = ""
            first ==
                IF ~xor THEN (IF d.fromFlags
                              THEN "need an --exercise name or a solution --uuid"
                              ELSE "need a 'slug' or a 'uuid'")
                ELSE IF d.token = "" THEN "missing required user config: 'token'"
                ELSE IF d.apibaseurl = "" THEN "missing required user config: 'apibaseurl'"
                ELSE IF d.workspace = << >> THEN "missing required user config: 'workspace'"
                ELSE IF scoped THEN "--team or --track requires --exercise (not --uuid)"
                ELSE ""
        IN  /\ validate(d).msg = first
            /\ (first = "") <=> (validate(d) = Nil)
            /\ (pc = "done" /\ first # "") => result = "error" /\ err.msg = first

C18_Witness ==
    /\ pc = "done"
    /\ params # << >>
    /\ params[1].slug = ""
    /\ params[1].uuid = ""
    /\ params[1].token = ""
    /\ params[1].workspace = << >>
    /\ params[1].fromFlags
    /\ params[1].track = "go"
    /\ err = NewError("validation", "need an --exercise name or a solution --uuid")

\* C19: for a lookup response whose body decodes, status 401 gives the
\* unauthorized error whatever the payload's Error fields are; any other non-200
\* status gives Error.Message followed by the joined PossibleTrackIDs when
\* Error.Type is "track_ambiguous" and Error.Message alone otherwise; an error is
\* returned in all these cases, also when Error.Message is empty.
C19_Non200Classification ==
    (pc = "done" /\ response.transport = "ok" /\ response.body \in {"object", "null"}
        /\ response.status # StatusOK) =>
        /\ result = "error"
        /\ err # Nil
        /\ response.status = StatusUnauthorized =>
               err = NewError("api", "unauthorized request")
        /\ response.status # StatusUnauthorized =>
               /\ payload # << >>
               /\ err.msg = payload[1].Error.Message
               /\ IF payload[1].Error.Type = "track_ambiguous"
                  THEN /\ err.kind = "track_ambiguous"
                       /\ err.ids = payload[1].Error.PossibleTrackIDs
                  ELSE err = NewError("api", payload[1].Error.Message)


\* C11: on a download whose params have fromExercise set, writeSolutionFiles
\* returns the "existing exercise files should not be overwritten" error at
\* once, whatever Solution.Files holds: its call issues no request and leaves
\* every file and directory as it was.
C11_FromExerciseWritesNothing ==
    [][(params # << >> /\ params[1].fromExercise /\ w'.files # w.files) =>
          /\ w'.files = "error"
          /\ w'.filesErr = NewError("overwrite",
                               "existing exercise files should not be overwritten")
          /\ requests' = requests
          /\ disk' = disk
          /\ pc' = "done"]_vars

C11_Witness ==
    /\ params # << >>
    /\ params[1].fromExercise
    /\ Len(payload[1].Solution.Files) = 2
    /\ w.calls = <<"writeMetadata", "writeSolutionFiles">>
    /\ w.files = "error"
    /\ Len(requests) = 1
    /\ DOMAIN disk.files = {}


\* C12 (as stated): in a pass of the loop of writeSolutionFiles, a response
\* with another status than 200, or with status 200 and Content-Length "0",
\* is skipped (the disk stays as it was, no error is returned, the loop goes
\* on with the next entry), and every other 200 response leaves a file with
\* the body of that response at the path of the entry.
C12_SkippedOrWritten ==
    [][(pc = "files" /\ w'.outcomes # w.outcomes) =>
          LET o == w'.outcomes[Len(w'.outcomes)]
              filename == payload[1].Solution.Files[w.i]
              path == fileWritePath(goos, params[1], payload[1], filename)
          IN  /\ o \in {"notfound", "empty"} =>
                  /\ disk' = disk
                  /\ requests' = Append(requests, fileRequest(payload[1], filename))
                  /\ w'.files = "running" /\ w'.filesErr = Nil
                  /\ w'.i = w.i + 1 /\ pc' = "files"
              /\ o \in {"content", "truncated"} =>
                  /\ path \in DOMAIN disk'.files
                  /\ disk'.files[path].from = filename]_vars

\* C12 (amended): the skipped responses are as stated; every other 200
\* response leaves a file with the body of that response at the path of the
\* entry unless the directory or the file cannot be made, and then
\* writeSolutionFiles returns that error and no file is written or changed.
C12_SkippedOrWrittenUnlessDiskFails ==
    [][(pc = "files" /\ w'.outcomes # w.outcomes) =>
          LET o == w'.outcomes[Len(w'.outcomes)]
              filename == payload[1].Solution.Files[w.i]
              path == fileWritePath(goos, params[1], payload[1], filename)
              made == MkdirAll(goos, disk, Dir(goos, path))
              blocked == ~made.ok \/ IsDir(goos, made.disk, path)
          IN  /\ o \in {"notfound", "empty"} =>
                  /\ disk' = disk
                  /\ requests' = Append(requests, fileRequest(payload[1], filename))
                  /\ w'.files = "running" /\ w'.filesErr = Nil
                  /\ w'.i = w.i + 1 /\ pc' = "files"
              /\ (o \in {"content", "truncated"} /\ ~blocked) =>
                  /\ path \in DOMAIN disk'.files
                  /\ disk'.files[path] = [from |-> filename, whole |-> o = "content"]
                  /\ o = "content" => w'.files = "running" /\ w'.i = w.i + 1
              /\ (o \in {"content", "truncated"} /\ blocked) =>
                  /\ disk'.files = disk.files
                  /\ w'.files = "error" /\ w'.filesErr.kind = "fs"
                  /\ pc' = "done"]_vars

\* A 404 was skipped, the entry after it was written, and a later call of the
\* writer's loop returned without error.
C12_Witness ==
    /\ w.files = "ok"
    /\ w.outcomes = <<"notfound", "content">>
    /\ Len(requests) = 3
    /\ Cardinality(DOMAIN disk.files) = 1
    /\ \A p \in DOMAIN disk.files : disk.files[p].from = payload[1].Solution.Files[2]


\* C13: when the URL of the k-th entry of Solution.Files cannot be built, or
\* its request fails in client.Do, writeSolutionFiles returns that error in
\* that pass of the loop and leaves the disk as it was, so the files of the
\* entries before k stay; once it has returned the error no further request
\* is issued and no file is written or changed.
C13_RequestFailureAborts ==
    [][/\ (pc = "files" /\ w'.outcomes # w.outcomes
              /\ w'.outcomes[Len(w'.outcomes)] \in {"badurl", "transport"}) =>
              LET o == w'.outcomes[Len(w'.outcomes)]
                  filename == payload[1].Solution.Files[w.i]
              IN  /\ w'.files = "error"
                  /\ w'.filesErr = IF o = "badurl"
                                   THEN NewError("url", "invalid URI for request")
                                   ELSE NewError("transport", "file")
                  /\ pc' = "done"
                  /\ disk' = disk
                  /\ requests' = IF o = "badurl" THEN requests
                                 ELSE Append(requests, fileRequest(payload[1], filename))
       /\ w.files = "error" =>
              /\ w'.files = "error" /\ w'.filesErr = w.filesErr
              /\ requests' = requests
              /\ disk'.files = disk.files]_vars

\* The first of three entries was written, the request for the second failed,
\* and writeMetadata was called afterwards: the first file is there, the third
\* entry was never requested.
C13_Witness ==
    /\ payload # << >>
    /\ Len(payload[1].Solution.Files) = 3
    /\ w.outcomes = <<"content", "transport">>
    /\ w.files = "error"
    /\ w.calls = <<"writeSolutionFiles", "writeMetadata">>
    /\ Len(requests) = 3
    /\ Cardinality(DOMAIN disk.files) = 1


\* C14: every file made by writeSolutionFiles lies below the exercise
\* directory {workspace}[/teams/{team}][/users/{handle}]/{track}/{slug}, the
\* directory writeMetadata writes the metadata record into, whatever the file
\* names of Solution.Files are.
C14_FilesInsideExerciseDir ==
    (params # << >> /\ payload # << >> /\ result = "ok") =>
        LET pl == payload[1]
            dir == Join(goos,
                        <<params[1].workspace,
                          IF pl.Solution.Team.Slug # << >> THEN <<"teams">> ELSE << >>,
                          IF pl.Solution.Team.Slug # << >> THEN pl.Solution.Team.Slug ELSE << >>,
                          IF ~pl.Solution.User.IsRequester THEN <<"users">> ELSE << >>,
                          IF ~pl.Solution.User.IsRequester THEN pl.Solution.User.Handle ELSE << >>,
                          pl.Solution.Exercise.Track.ID,
                          pl.Solution.Exercise.ID>>)
        IN  /\ DOMAIN disk.meta \subseteq {dir}
            /\ \A path \in DOMAIN disk.files :
                   /\ Len(path) > Len(dir) + 1
                   /\ SubSeq(path, 1, Len(dir) + 1) = dir \o <<Separator(goos)>>


\* C15: once writeSolutionFiles has returned, with or without an error, every
\* response body it obtained and every file it created has been closed, the
\* bodies of the responses it skipped included.
C15_AllHandlesClosed ==
    w.files \in {"ok", "error"} => w.open = {}


\* C16: after writeMetadata the record read back from the exercise directory
\* carries AutoApprove, Track, Team, Exercise, ID, URL, Handle and IsRequester
\* equal to the payload's Solution.Exercise.AutoApprove,
\* Solution.Exercise.Track.ID, Solution.Team.Slug, Solution.Exercise.ID,
\* Solution.ID, Solution.URL, Solution.User.Handle and
\* Solution.User.IsRequester, and the payload is still the decoded response.
C16_MetadataRoundTrips ==
    w.meta = "ok" =>
        LET pl == payload[1]
            back == Read(disk, destination(goos, params[1], pl))
        IN  /\ back # << >>
            /\ back[1].AutoApprove = pl.Solution.Exercise.AutoApprove
            /\ back[1].Track = pl.Solution.Exercise.Track.ID
            /\ back[1].Team = pl.Solution.Team.Slug
            /\ back[1].Exercise = pl.Solution.Exercise.ID
            /\ back[1].ID = pl.Solution.ID
            /\ back[1].URL = pl.Solution.URL
            /\ back[1].Handle = pl.Solution.User.Handle
            /\ back[1].IsRequester = pl.Solution.User.IsRequester
            /\ DOMAIN back[1] = {"AutoApprove", "Track", "Team", "Exercise", "ID", "URL",
                                 "Handle", "IsRequester"}
            /\ payload = response.decoded

C16_Witness ==
    /\ w.meta = "ok"
    /\ w.calls = <<"writeMetadata">>
    /\ payload[1].Solution.Team.Slug = <<"acme">>
    /\ ~payload[1].Solution.User.IsRequester
    /\ Read(disk, destination(goos, params[1], payload[1])) = <<metadata(payload[1])>>


\* C20: the requests of a run are the one lookup request and after it, for the
\* entries of Solution.Files that writeSolutionFiles has handled so far, one
\* request each in the order of the list (none for an entry whose URL could
\* not be built, which ends the loop); the loop is at the entry after the
\* last one handled, and when writeSolutionFiles returns without error there
\* are as many file requests as entries.
C20_OneLookupThenFilesInOrder ==
    LET handled == Len(w.outcomes)
        sent == IF handled > 0 /\ w.outcomes[handled] = "badurl" THEN handled - 1
                ELSE handled
    IN  /\ pc \in {"start", "newDownload"} => requests = << >>
        /\ pc \in {"awaiting", "done", "files"} =>
               \/ requests = << >> /\ result = "error" /\ w = NoWriterRun
               \/ /\ requests # << >>
                  /\ requests[1] = lookupRequest(params[1])
                  /\ Len(requests) = 1 + sent
                  /\ \A k \in 1..sent :
                         requests[1 + k] = fileRequest(payload[1], payload[1].Solution.Files[k])
        /\ handled > 0 => result = "ok" /\ handled <= Len(payload[1].Solution.Files)
        /\ w.files = "running" => pc = "files" /\ w.i = handled + 1
        /\ w.files = "ok" =>
               /\ handled = Len(payload[1].Solution.Files)
               /\ Len(requests) = 1 + Len(payload[1].Solution.Files)

C20_Witness ==
    /\ w.files = "ok"
    /\ w.outcomes = <<"content", "notfound">>
    /\ requests = <<lookupRequest(params[1]),
                    fileRequest(payload[1], <<"f", "/", "b">>),
                    fileRequest(payload[1], <<"/", "e", "-", "2", "/">>)>>


\* C17: given the same params, the same response to the lookup and the same
\* responses to the file requests, newDownload with the writer's two methods
\* and getDownloadPayload with the two functions that take the payload issue
\* the same requests, both succeed or both fail, and leave the same
\* directories, files and metadata on disk.
C17_PipelinesEquivalent ==
    (/\ Finished
     /\ flat.result # "none"
     /\ flat.result = "ok" => (flat.meta # "none" /\ flat.files \notin {"none", "running"})) =>
        /\ flat.requests = requests
        /\ (flat.result = "ok" /\ flat.meta = "ok" /\ flat.files = "ok")
               <=> (result = "ok" /\ w.meta = "ok" /\ w.files = "ok")
        /\ flat.disk = disk


\* C21: for a fixed slug, sanitizing the path that
\* sanitizeLegacyNumericSuffixFilepath returned gives that same path, for every
\* file name, those with backslashes around a {slug}-<digits> element included.
C21_SanitizeIdempotent ==
    pc = "resanitized" => again = native

====
